---- MODULE Spec2Model ----
(***************************************************************************)
(* Fornjot: the kernel's shape store as the topology builders drive it     *)
(* (fj-kernel/src/topology/builder.rs) and the polygon containment test of *)
(* the face triangulation (fj-kernel/src/algorithms/triangulation/         *)
(* polygon.rs).                                                            *)
(*                                                                         *)
(* The store itself (Shape::insert, Shape::get_handle_or_insert, the       *)
(* validation of objects, Handle) lives in fj-kernel/src/shape, which is   *)
(* not among the source files; those definitions follow sections 3, 4.1    *)
(* and 7 of the specification and are marked as such.                      *)
(***************************************************************************)
EXTENDS Integers, Sequences, FiniteSets, TLC

VARIABLES
    shape,       \* the Shape the builders work on: one arena per object type
    before,      \* the Shape as it was when the last call started
    mid,         \* the Shape between the two inserts of the last builder call
    call,        \* the last call: its operation and its arguments
    result,      \* what the last call returned: Ok(handle) or Err(error)
    returned,    \* per builder input, the handles the builder has returned
    segments,    \* Polygon::segments
    triangle,    \* contains_triangle: the triangle [a, b, c]
    outside,     \* contains_triangle: the outside point
    order,       \* the iteration order of the HashSet `segments` in the call
    debug_info,  \* DebugInfo::triangle_edge_checks
    ret,         \* contains_triangle: the returned boolean
    applied,     \* the function of fj-math or fj that was applied, "none" before
    args,        \* its arguments
    value,       \* what it returned
    source,      \* the model's source: how often it was modified, and its state
    pc,          \* main: the position of the main thread
    loaded,      \* main: `shape`, what model.load returned at the start
    faces,       \* main: `faces`
    renderer,    \* main: `renderer`, with the geometry it draws
    watcher,     \* main: `watcher`: registered or not, its events, the platform's event kind
    callback,    \* the watcher's callback: idle, blocked in send, or panicked
    channel,     \* main: the channel of watcher_tx and watcher_rx
    sent,        \* the shapes the callback has passed to send, in order
    received     \* the shapes try_recv has returned, in order

shapeVars == <<shape, before, mid, call, result, returned>>
polygonVars == <<segments, triangle, outside, order, debug_info, ret>>
functionVars == <<applied, args, value>>
mainVars == <<source, pc, loaded, faces, renderer, watcher, callback, channel, sent, received>>
vars == <<shape, before, mid, call, result, returned,
          segments, triangle, outside, order, debug_info, ret,
          applied, args, value,
          source, pc, loaded, faces, renderer, watcher, callback, channel, sent, received>>

-----------------------------------------------------------------------------
(* Bounds and input domains                                                *)

\* The most objects of one type a Shape holds in the model.
MaxSlots == 2

\* The most objects of all types together a Shape holds in the model.
MaxObjects == 6

\* The points the builders are called with (Point<3>, integer coordinates).
Points == {<<0, 0, 0>>, <<1, 0, 0>>}

\* The radii EdgeBuilder::circle is called with.
Radii == {1, 2}

-----------------------------------------------------------------------------
(* Handles and the store                                                   *)

\* A Handle<T>: the identity of a slot of one Shape's arena for T.
Handle(store, slot) == [store |-> store, slot |-> slot]

NoHandle == Handle("none", 0)

EmptyShape == [points |-> <<>>, curves |-> <<>>, vertices |-> <<>>, edges |-> <<>>]

Kinds == {"points", "curves", "vertices", "edges"}

\* Geometry values.
Line(origin, direction) == [type |-> "Line", origin |-> origin, direction |-> direction]

\* Line::from_points as the builder uses it: origin a, direction b - a.
from_points(a, b) ==
    Line(a, <<b[1] - a[1], b[2] - a[2], b[3] - a[3]>>)

Circle(center, radius) == [type |-> "Circle", center |-> center, radius |-> radius]

Vertex(point) == [point |-> point]

\* Edge::vertices is Option<[Handle<Vertex>; 2]>: <<>> is None.
Edge(curve, vertices) == [curve |-> curve, vertices |-> vertices]

\* A second Shape, built elsewhere: its handles can be passed to the builders
\* and to insert, and they resolve (Handle::get), but not inside `shape`.
OtherShape ==
    [points   |-> << <<0, 0, 0>> >>,
     curves   |-> << >>,
     vertices |-> << Vertex(Handle("other", 1)) >>,
     edges    |-> << >>]

\* Handle::get: the object the handle refers to, whichever Shape owns it.
get(s, kind, h) ==
    IF h.store = "shape" THEN s[kind][h.slot] ELSE OtherShape[kind][h.slot]

\* The handle resolves inside the Shape s.
Resolves(s, kind, h) ==
    h.store = "shape" /\ h.slot \in 1..Len(s[kind])

\* The handles of the Shape s for one object type.
HandlesOf(s, kind) == {Handle("shape", i) : i \in 1..Len(s[kind])}

\* Every handle a caller can hold for one object type.
HeldHandles(s, kind) ==
    HandlesOf(s, kind) \cup {Handle("other", i) : i \in 1..Len(OtherShape[kind])}

Ok(h) == [kind |-> "Ok", handle |-> h, error |-> "None"]
Err(e) == [kind |-> "Err", handle |-> NoHandle, error |-> e]

-----------------------------------------------------------------------------
(* Validation                                                              *)

Cross(u, v) ==
    <<u[2] * v[3] - u[3] * v[2], u[3] * v[1] - u[1] * v[3], u[1] * v[2] - u[2] * v[1]>>

\* The point lies on the curve (coordinates are integers: no tolerance needed).
OnCurve(curve, p) ==
    IF curve.type = "Circle"
    THEN /\ p[3] = curve.center[3]
         /\ (p[1] - curve.center[1]) * (p[1] - curve.center[1])
              + (p[2] - curve.center[2]) * (p[2] - curve.center[2])
            = curve.radius[1] * curve.radius[1] + curve.radius[2] * curve.radius[2]
    ELSE LET d == <<p[1] - curve.origin[1], p[2] - curve.origin[2], p[3] - curve.origin[3]>>
         IN  IF curve.direction = <<0, 0, 0>>
             THEN d = <<0, 0, 0>>
             ELSE Cross(d, curve.direction) = <<0, 0, 0>>

\* (a) structural: every handle the object references resolves in the store.
structural(s, kind, object) ==
    CASE kind = "vertices" -> Resolves(s, "points", object.point)
      [] kind = "edges" ->
            /\ Resolves(s, "curves", object.curve)
            /\ \A i \in 1..Len(object.vertices) : Resolves(s, "vertices", object.vertices[i])
      [] OTHER -> TRUE

\* (b) geometric: an Edge's vertices lie on its curve.
geometric(s, kind, object) ==
    CASE kind = "edges" ->
            \A i \in 1..Len(object.vertices) :
                OnCurve(get(s, "curves", object.curve),
                        get(s, "points", get(s, "vertices", object.vertices[i]).point))
      [] OTHER -> TRUE

\* Validation that admits every object.
validate_unchecked(s, kind, object) == "None"

\* Validation before an object is admitted: "None" or the kind of the error.
validate(s, kind, object) ==
    IF ~structural(s, kind, object) THEN "Structural"
    ELSE IF ~geometric(s, kind, object) THEN "Geometric"
    ELSE "None"

-----------------------------------------------------------------------------
(* Shape::insert and Shape::get_handle_or_insert                           *)

\* The slot of a value-equal object, 0 when there is none.
get_handle(s, kind, object) ==
    IF \E i \in 1..Len(s[kind]) : s[kind][i] = object
    THEN CHOOSE i \in 1..Len(s[kind]) : s[kind][i] = object
    ELSE 0

\* The arena admits the object in the first slot and moves the others up.
store_prepend(s, kind, object) ==
    [shape  |-> [s EXCEPT ![kind] = <<object>> \o @],
     result |-> Ok(Handle("shape", 1))]

\* The arena admits the object in a fresh slot; the other slots stay.
store(s, kind, object) ==
    [shape  |-> [s EXCEPT ![kind] = Append(@, object)],
     result |-> Ok(Handle("shape", Len(s[kind]) + 1))]

\* insert without the lookup: every valid object gets a fresh slot.
insert_fresh(s, kind, object) ==
    LET error == validate(s, kind, object)
    IN  IF error # "None" THEN [shape |-> s, result |-> Err(error)]
        ELSE store(s, kind, object)

\* insert: validate, then admit; a value-equal object is never stored twice.
insert(s, kind, object) ==
    LET error == validate(s, kind, object)
        slot == get_handle(s, kind, object)
    IN  IF error # "None" THEN [shape |-> s, result |-> Err(error)]
        ELSE IF slot # 0 THEN [shape |-> s, result |-> Ok(Handle("shape", slot))]
        ELSE store(s, kind, object)

\* get_handle_or_insert without the lookup.
get_handle_or_insert_no_lookup(s, kind, object) == insert_fresh(s, kind, object)

\* get_handle_or_insert: the existing handle of an equal object, else insert.
get_handle_or_insert(s, kind, object) ==
    LET slot == get_handle(s, kind, object)
    IN  IF slot # 0 THEN [shape |-> s, result |-> Ok(Handle("shape", slot))]
        ELSE insert(s, kind, object)

-----------------------------------------------------------------------------
(* The builders (topology/builder.rs)                                      *)

\* What a builder call leaves: the Shape, the Shape between its two inserts
\* (the final Shape when `?` returned after the first), and the result.
Outcome(shape_, mid_, result_) == [shape |-> shape_, mid |-> mid_, result |-> result_]

\* from_point storing the Point and the Vertex without asking the store for a
\* value-equal object.
from_point_storing(s, point) ==
    LET p == insert_fresh(s, "points", point)
    IN  IF p.result.kind = "Err" THEN Outcome(p.shape, p.shape, p.result)
        ELSE LET vertex == insert_fresh(p.shape, "vertices", Vertex(p.result.handle))
             IN  Outcome(vertex.shape, p.shape, vertex.result)

\* VertexBuilder::from_point
from_point(s, point) ==
    LET p == get_handle_or_insert(s, "points", point)
    IN  IF p.result.kind = "Err" THEN Outcome(p.shape, p.shape, p.result)
        ELSE LET vertex == get_handle_or_insert(p.shape, "vertices", Vertex(p.result.handle))
             IN  Outcome(vertex.shape, p.shape, vertex.result)

\* circle storing the Curve and the Edge without asking the store for a
\* value-equal object.
circle_storing(s, radius) ==
    LET curve == insert_fresh(s, "curves", Circle(<<0, 0, 0>>, <<radius, 0>>))
    IN  IF curve.result.kind = "Err" THEN Outcome(curve.shape, curve.shape, curve.result)
        ELSE LET edge == insert_fresh(curve.shape, "edges", Edge(curve.result.handle, <<>>))
             IN  Outcome(edge.shape, curve.shape, edge.result)

\* EdgeBuilder::circle
circle(s, radius) ==
    LET curve == insert(s, "curves", Circle(<<0, 0, 0>>, <<radius, 0>>))
    IN  IF curve.result.kind = "Err" THEN Outcome(curve.shape, curve.shape, curve.result)
        ELSE LET edge == insert(curve.shape, "edges", Edge(curve.result.handle, <<>>))
             IN  Outcome(edge.shape, curve.shape, edge.result)

\* vertex.get().point(): the point of the vertex the handle refers to.
point(s, vertex) == get(s, "points", get(s, "vertices", vertex).point)

\* line_segment_from_vertices with the Edge built as circle builds it: no vertices.
line_segment_without_vertices(s, vertices) ==
    LET curve == insert(s, "curves",
                        from_points(point(s, vertices[1]), point(s, vertices[2])))
    IN  IF curve.result.kind = "Err" THEN Outcome(curve.shape, curve.shape, curve.result)
        ELSE LET edge == insert(curve.shape, "edges", Edge(curve.result.handle, <<>>))
             IN  Outcome(edge.shape, curve.shape, edge.result)

\* line_segment_from_vertices with the Line through the first vertex alone.
line_segment_from_first_vertex(s, vertices) ==
    LET curve == insert(s, "curves",
                        from_points(point(s, vertices[1]), point(s, vertices[1])))
    IN  IF curve.result.kind = "Err" THEN Outcome(curve.shape, curve.shape, curve.result)
        ELSE LET edge == insert(curve.shape, "edges", Edge(curve.result.handle, vertices))
             IN  Outcome(edge.shape, curve.shape, edge.result)

\* EdgeBuilder::line_segment_from_vertices
line_segment_from_vertices(s, vertices) ==
    LET curve == insert(s, "curves",
                        from_points(point(s, vertices[1]), point(s, vertices[2])))
    IN  IF curve.result.kind = "Err" THEN Outcome(curve.shape, curve.shape, curve.result)
        ELSE LET edge == insert(curve.shape, "edges", Edge(curve.result.handle, vertices))
             IN  Outcome(edge.shape, curve.shape, edge.result)

-----------------------------------------------------------------------------
(* The calls                                                               *)

WithinBounds(s) ==
    /\ \A kind \in Kinds : Len(s[kind]) <= MaxSlots
    /\ Len(s.points) + Len(s.curves) + Len(s.vertices) + Len(s.edges) <= MaxObjects

\* The objects a caller can pass to insert and get_handle_or_insert.
Objects(s, kind) ==
    CASE kind = "points" -> Points
      [] kind = "curves" ->
            {Circle(<<0, 0, 0>>, <<r, 0>>) : r \in Radii}
            \cup {from_points(a, b) : a \in Points, b \in Points}
      [] kind = "vertices" -> {Vertex(h) : h \in HeldHandles(s, "points")}
      [] kind = "edges" ->
            {Edge(c, <<>>) : c \in HeldHandles(s, "curves")}
            \cup {Edge(c, <<v, w>>) : c \in HeldHandles(s, "curves"),
                                      v \in HeldHandles(s, "vertices"),
                                      w \in HeldHandles(s, "vertices")}

\* Every Handle<Vertex> a caller can come to hold in the model.
AllVertexHandles ==
    {Handle("shape", i) : i \in 1..MaxSlots}
    \cup {Handle("other", i) : i \in 1..Len(OtherShape.vertices)}

\* Per builder input: the results the builder has returned for it, and the
\* number of calls with it (counted up to 2).
NoCalls == [results |-> {}, calls |-> 0]

NoneReturned ==
    [from_point |-> [p \in Points |-> NoCalls],
     circle     |-> [r \in Radii |-> NoCalls],
     line_segment_from_vertices |-> [vs \in AllVertexHandles \X AllVertexHandles |-> NoCalls]]

Record(entry, r) ==
    [results |-> entry.results \cup {r},
     calls   |-> IF entry.calls < 2 THEN entry.calls + 1 ELSE 2]

NoCall == [op |-> "none", arg |-> <<>>]

\* A call is made on a new builder (`new`), never on one that was used.
Commit(c, o) ==
    /\ call = NoCall
    /\ WithinBounds(o.shape)
    /\ shape' = o.shape
    /\ before' = shape
    /\ mid' = o.mid
    /\ call' = c
    /\ result' = o.result
    /\ UNCHANGED polygonVars
    /\ UNCHANGED functionVars
    /\ UNCHANGED mainVars

FromPoint(p) ==
    Commit([op |-> "from_point", arg |-> p], from_point(shape, p))

CircleCall(r) ==
    Commit([op |-> "circle", arg |-> r], circle(shape, r))

LineSegment(vertices) ==
    Commit([op |-> "line_segment_from_vertices", arg |-> vertices],
           line_segment_from_vertices(shape, vertices))

Insert ==
    \E kind \in Kinds :
        \E object \in Objects(shape, kind) :
            LET r == insert(shape, kind, object)
            IN  /\ Commit([op |-> "insert", kind |-> kind, arg |-> object],
                          Outcome(r.shape, shape, r.result))
                /\ UNCHANGED returned

GetHandleOrInsert ==
    \E kind \in Kinds :
        \E object \in Objects(shape, kind) :
            LET r == get_handle_or_insert(shape, kind, object)
            IN  /\ Commit([op |-> "get_handle_or_insert", kind |-> kind, arg |-> object],
                          Outcome(r.shape, shape, r.result))
                /\ UNCHANGED returned

\* VertexBuilder::new, EdgeBuilder::new: a call consumes its builder, and the
\* next call starts from a new one, which holds the Shape and nothing else.
new ==
    /\ call # NoCall
    /\ before' = shape
    /\ mid' = shape
    /\ call' = NoCall
    /\ result' = Ok(NoHandle)
    /\ UNCHANGED <<shape, returned>>
    /\ UNCHANGED polygonVars
    /\ UNCHANGED functionVars
    /\ UNCHANGED mainVars

\* The builder calls, as one of any sequence of calls on the Shape.
BuildVertex == \E p \in Points : FromPoint(p) /\ UNCHANGED returned

BuildCircle == \E r \in Radii : CircleCall(r) /\ UNCHANGED returned

BuildLineSegment ==
    \E v \in HeldHandles(shape, "vertices"), w \in HeldHandles(shape, "vertices") :
        LineSegment(<<v, w>>) /\ UNCHANGED returned

\* The builder calls alone, each recorded with what it returned.
RecordVertex ==
    \E p \in Points :
        /\ FromPoint(p)
        /\ returned' = [returned EXCEPT !.from_point[p] = Record(@, result')]

RecordCircle ==
    \E r \in Radii :
        /\ CircleCall(r)
        /\ returned' = [returned EXCEPT !.circle[r] = Record(@, result')]

RecordLineSegment ==
    \E v \in HeldHandles(shape, "vertices"), w \in HeldHandles(shape, "vertices") :
        /\ LineSegment(<<v, w>>)
        /\ returned' = [returned EXCEPT
                           !.line_segment_from_vertices[<<v, w>>] = Record(@, result')]

InitShape ==
    /\ shape = EmptyShape
    /\ before = EmptyShape
    /\ mid = EmptyShape
    /\ call = NoCall
    /\ result = Ok(NoHandle)
    /\ returned = NoneReturned

-----------------------------------------------------------------------------
(* Polygon (algorithms/triangulation/polygon.rs)                           *)

\* The precision the ray parameters are rounded to (`eps`).
eps == 1000000

\* The most TriangleEdgeChecks DebugInfo holds when contains_triangle is called.
MaxChecks == 1

\* The most segments of a Polygon for which every iteration order of the
\* HashSet is tried; a bigger Polygon is iterated in the rotations of the
\* order of insertion, forwards and backwards.
MaxPermuted == 4

\* CycleApprox, as its points in model space (the cycle closes on its first
\* point). The faces lie in the plane z = 0 and have even coordinates, so that
\* the middle of every edge is a point of integer coordinates.
Triangle3 == << <<0, 0, 0>>, <<4, 0, 0>>, <<0, 4, 0>> >>
Square4 == << <<0, 0, 0>>, <<4, 0, 0>>, <<4, 4, 0>>, <<0, 4, 0>> >>
Outer == << <<0, 0, 0>>, <<12, 0, 0>>, <<12, 12, 0>>, <<0, 12, 0>> >>
Hole == << <<4, 4, 0>>, <<8, 4, 0>>, <<8, 8, 0>>, <<4, 8, 0>> >>

\* The faces: an exterior cycle and the interior cycles.
Faces ==
    {[exterior |-> Triangle3, interiors |-> <<>>],
     [exterior |-> Square4, interiors |-> <<>>],
     [exterior |-> Outer, interiors |-> <<Hole>>]}

\* The outside points contains_triangle is called with.
OutsidePoints == {<<-2, -4>>, <<14, 6>>, <<6, 16>>, <<6, 14>>, <<16, 4>>}

\* Surface::point_model_to_surface, for the surface z = 0 with u = x, v = y.
point_model_to_surface(p) == <<p[1], p[2]>>

\* Surface::point_surface_to_model, Surface::vector_surface_to_model.
point_surface_to_model(p) == <<p[1], p[2], 0>>
vector_surface_to_model(v) == <<v[1], v[2], 0>>

\* CycleApprox::segments: the segments between consecutive points, closed.
cycle_segments(points) ==
    [i \in 1..Len(points) |-> <<points[i], points[(i % Len(points)) + 1]>>]

RECURSIVE chain(_)
chain(seqs) == IF seqs = <<>> THEN <<>> ELSE Head(seqs) \o chain(Tail(seqs))

\* The segments of a face in the order Polygon::new collects them.
collected(exterior, interiors) ==
    LET all == cycle_segments(exterior)
               \o chain([i \in 1..Len(interiors) |-> cycle_segments(interiors[i])])
    IN  [i \in 1..Len(all) |->
            <<point_model_to_surface(all[i][1]), point_model_to_surface(all[i][2])>>]

Range(f) == {f[i] : i \in DOMAIN f}

\* Polygon::new: the HashSet of the projected segments.
Polygon_new(exterior, interiors) == Range(collected(exterior, interiors))

\* The orders in which a HashSet holding these segments can iterate them.
IterationOrders(seq) ==
    LET n == Len(seq)
    IN  IF n <= MaxPermuted
        THEN {o \in [1..n -> Range(seq)] : Range(o) = Range(seq)}
        ELSE {[i \in 1..n |-> seq[((i + k - 1) % n) + 1]] : k \in 0..(n - 1)}
             \cup {[i \in 1..n |-> seq[((k - i + n) % n) + 1]] : k \in 0..(n - 1)}

Dot(u, v) == u[1] * v[1] + u[2] * v[2]

NoHit == [hit |-> FALSE, n |-> 0, d |-> 1]
Hit(n, d) == [hit |-> TRUE, n |-> n, d |-> d]

\* Segment::cast_local_ray(ray, f64::INFINITY, true) of parry2d: the parameter
\* n / d of the ray at which it meets the segment, if it does.
cast_local_ray(edge, origin, dir) ==
    LET seg == <<edge[2][1] - edge[1][1], edge[2][2] - edge[1][2]>>
        r == <<origin[1] - edge[1][1], origin[2] - edge[1][2]>>
        dpos == <<edge[1][1] - origin[1], edge[1][2] - origin[2]>>
        a == Dot(dir, dir)
        e == Dot(seg, seg)
        f == Dot(seg, r)
        c == Dot(dir, r)
        b == Dot(dir, seg)
        denom == a * e - b * b
        dist1 == Dot(dpos, dir)
        dist2 == dist1 + Dot(seg, dir)
    IN  IF a = 0
        THEN \* no direction: the origin is compared with the segment
             IF e > 0 /\ 0 <= f /\ f <= e THEN Hit(0, 1) ELSE NoHit
        ELSE IF denom = 0
        THEN \* parallel: a hit only when ray and segment are collinear
             IF dpos[1] * seg[2] - dpos[2] * seg[1] # 0 THEN NoHit
             ELSE IF dist1 >= 0 /\ dist2 >= 0
                  THEN Hit(IF dist1 < dist2 THEN dist1 ELSE dist2, a)
             ELSE IF dist1 >= 0 \/ dist2 >= 0 THEN Hit(0, 1)
             ELSE NoHit
        ELSE LET sn == b * f - c * e
                 tn == a * f - b * c
             IN  IF sn >= 0 /\ tn >= 0 /\ tn <= denom THEN Hit(sn, denom) ELSE NoHit

RECURSIVE scaled(_, _, _, _)
scaled(q, r, d, scale) ==
    IF scale >= eps THEN <<q, r>>
    ELSE scaled(q * 10 + ((r * 10) \div d), (r * 10) % d, d, scale * 10)

\* (t * eps).round() / eps for t = n / d >= 0, in units of 1 / eps.
round(n, d) ==
    LET qr == scaled(n \div d, n % d, d, 1)
    IN  IF 2 * qr[2] >= d THEN qr[1] + 1 ELSE qr[1]

\* A test that knows a segment in the orientation it is stored in only.
contains_segment_as_stored(segs, segment) == segment \in segs

\* The loop over the segments with a hit compared with the hit found last, in
\* the place of the BTreeSet of all hits.
\* The loop over the segments with a push for every hit, new in `hits` or not.
RECURSIVE cast_edges_pushing(_, _, _, _, _, _)
cast_edges_pushing(edges, i, origin, dir, hits, pushed) ==
    IF i > Len(edges) THEN [hits |-> hits, pushed |-> pushed]
    ELSE LET intersection == cast_local_ray(edges[i], origin, dir)
             t == round(intersection.n, intersection.d)
         IN  IF intersection.hit
             THEN cast_edges_pushing(edges, i + 1, origin, dir,
                                     hits \cup {t}, Append(pushed, t))
             ELSE cast_edges_pushing(edges, i + 1, origin, dir, hits, pushed)

RECURSIVE cast_edges_last(_, _, _, _, _, _)
cast_edges_last(edges, i, origin, dir, hits, pushed) ==
    IF i > Len(edges) THEN [hits |-> hits, pushed |-> pushed]
    ELSE LET intersection == cast_local_ray(edges[i], origin, dir)
             t == round(intersection.n, intersection.d)
         IN  IF intersection.hit /\ (pushed = <<>> \/ pushed[Len(pushed)] # t)
             THEN cast_edges_last(edges, i + 1, origin, dir,
                                  hits \cup {<<i, t>>}, Append(pushed, t))
             ELSE cast_edges_last(edges, i + 1, origin, dir, hits, pushed)

\* Polygon::contains_segment
contains_segment(segs, segment) ==
    segment \in segs \/ <<segment[2], segment[1]>> \in segs

\* The windows without the last one: the edge that closes the triangle is left out.
windows_open(points) == [i \in 1..(Len(points) - 2) |-> <<points[i], points[i + 1]>>]

\* [a, b, c, a].windows(2)
windows(points) == [i \in 1..(Len(points) - 1) |-> <<points[i], points[i + 1]>>]

\* The loop over the Polygon's segments for one ray: the BTreeSet `hits` and
\* the hits pushed to the TriangleEdgeCheck.
RECURSIVE cast_edges(_, _, _, _, _, _)
cast_edges(edges, i, origin, dir, hits, pushed) ==
    IF i > Len(edges) THEN [hits |-> hits, pushed |-> pushed]
    ELSE LET intersection == cast_local_ray(edges[i], origin, dir)
             t == round(intersection.n, intersection.d)
         IN  IF intersection.hit /\ t \notin hits
             THEN cast_edges(edges, i + 1, origin, dir, hits \cup {t}, Append(pushed, t))
             ELSE cast_edges(edges, i + 1, origin, dir, hits, pushed)

TriangleEdgeCheck(origin, dir, hits) ==
    [ray  |-> [origin |-> point_surface_to_model(origin),
               dir    |-> vector_surface_to_model(dir)],
     hits |-> hits]

\* The loop over the triangle's edges without the early return: every edge is
\* examined, and the triangle is rejected at the end.
RECURSIVE check_edges_all(_, _, _, _, _, _)
check_edges_all(segs, edges, windowed, i, outside_, debug) ==
    IF i > Len(windowed) THEN [ret |-> TRUE, debug_info |-> debug]
    ELSE LET segment == windowed[i]
         IN  IF segment \in segs \/ <<segment[2], segment[1]>> \in segs
             THEN check_edges_all(segs, edges, windowed, i + 1, outside_, debug)
             ELSE LET center == <<segment[1][1] + ((segment[2][1] - segment[1][1]) \div 2),
                                  segment[1][2] + ((segment[2][2] - segment[1][2]) \div 2)>>
                      dir == <<outside_[1] - center[1], outside_[2] - center[2]>>
                      cast == cast_edges(edges, 1, center, dir, {}, <<>>)
                      check == TriangleEdgeCheck(center, dir, cast.pushed)
                      rest == check_edges_all(segs, edges, windowed, i + 1, outside_,
                                              Append(debug, check))
                  IN  [ret |-> Cardinality(cast.hits) % 2 = 1 /\ rest.ret,
                       debug_info |-> rest.debug_info]

\* The loop over the triangle's edges, from edge i on.
RECURSIVE check_edges(_, _, _, _, _, _)
check_edges(segs, edges, windowed, i, outside_, debug) ==
    IF i > Len(windowed) THEN [ret |-> TRUE, debug_info |-> debug]
    ELSE LET segment == windowed[i]
         IN  IF contains_segment(segs, segment)
             THEN check_edges(segs, edges, windowed, i + 1, outside_, debug)
             ELSE LET center == <<segment[1][1] + ((segment[2][1] - segment[1][1]) \div 2),
                                  segment[1][2] + ((segment[2][2] - segment[1][2]) \div 2)>>
                      dir == <<outside_[1] - center[1], outside_[2] - center[2]>>
                      cast == cast_edges(edges, 1, center, dir, {}, <<>>)
                      check == TriangleEdgeCheck(center, dir, cast.pushed)
                  IN  IF Cardinality(cast.hits) % 2 = 0
                      THEN [ret |-> FALSE, debug_info |-> Append(debug, check)]
                      ELSE check_edges(segs, edges, windowed, i + 1, outside_,
                                       Append(debug, check))

\* contains_triangle starting from an emptied DebugInfo.
contains_triangle_clearing(segs, edges, abc, outside_, debug) ==
    check_edges(segs, edges, windows(<<abc[1], abc[2], abc[3], abc[1]>>), 1, outside_, <<>>)

\* Polygon::contains_triangle; `edges` is the order in which the HashSet
\* `segs` is iterated.
contains_triangle(segs, edges, abc, outside_, debug) ==
    check_edges(segs, edges, windows(<<abc[1], abc[2], abc[3], abc[1]>>), 1, outside_, debug)

\* The points of the segments: the candidate triangles have their corners here.
Corners(segs) == {seg[1] : seg \in segs}

\* A check that DebugInfo may hold from an earlier call.
EarlierCheck == TriangleEdgeCheck(<<2, 2>>, <<-4, -6>>, <<500000>>)

InitPolygon ==
    /\ \E face \in Faces :
          /\ segments = Polygon_new(face.exterior, face.interiors)
          /\ order \in IterationOrders(collected(face.exterior, face.interiors))
    /\ triangle = <<>>
    /\ outside = <<0, 0>>
    /\ debug_info \in {checks \in {<<>>, <<EarlierCheck>>} : Len(checks) <= MaxChecks}
    /\ ret = FALSE

ContainsTriangle ==
    /\ triangle = <<>>
    /\ \E a \in Corners(segments), b \in Corners(segments), c \in Corners(segments) :
          \E o \in OutsidePoints :
              LET r == contains_triangle(segments, order, <<a, b, c>>, o, debug_info)
              IN  /\ a # b /\ b # c /\ c # a
                  /\ triangle' = <<a, b, c>>
                  /\ outside' = o
                  /\ debug_info' = r.debug_info
                  /\ ret' = r.ret
    /\ UNCHANGED <<segments, order>>
    /\ UNCHANGED shapeVars
    /\ UNCHANGED functionVars
    /\ UNCHANGED mainVars

InitPolygonIdle ==
    /\ segments = {}
    /\ triangle = <<>>
    /\ outside = <<0, 0>>
    /\ order = <<>>
    /\ debug_info = <<>>
    /\ ret = FALSE

\* No function of fj-math or fj is applied.
InitFunctionIdle ==
    /\ applied = "none"
    /\ args = <<>>
    /\ value = <<>>

-----------------------------------------------------------------------------
(* The application: main, the watcher's callback and the event loop         *)

MaxEdits == 3
MaxEvents == 1

\* What the source can be after a modification: it compiles, it does not, or
\* loading it fails in another way.
SourceStates == {"ok", "compile", "other"}

\* The kinds of event the callback reloads the model for; which of them a
\* modification is reported as varies across platforms.
ModifyKinds == {"Modify(Any)", "Modify(Data(Any))", "Modify(Data(Content))"}

\* Events the watcher delivers without a modification of the content: one of
\* a kind the callback ignores, and an error.
OtherEvents == {"Access(Any)", "Err"}

NoShape == [version |-> -1]
NoFaces == [faces_of |-> NoShape]
NoGeometry == [vertices_of |-> NoFaces]

\* model.load: the shape of the source as it is now, or an error.
load(src) ==
    IF src.state = "ok" THEN [kind |-> "Ok", shape |-> [version |-> src.version]]
    ELSE IF src.state = "compile" THEN [kind |-> "Compile", shape |-> NoShape]
    ELSE [kind |-> "Other", shape |-> NoShape]

\* shape.faces(tolerance)
shape_faces(s) == [faces_of |-> s]

\* faces.triangles(tolerance, &mut triangles), as the mesh handed to the renderer
triangles(f) == [vertices_of |-> f]

\* Renderer::update_geometry
update_geometry(r, mesh) == [r EXCEPT !.geometries = mesh]

\* A channel that takes a sender's value at once while `bound` values wait.
sync_channel_buffered(bound) ==
    [bound |-> bound + 1, buffer |-> <<>>, blocked |-> <<>>, connected |-> TRUE]

\* mpsc::sync_channel(bound): up to `bound` values wait in the buffer; a
\* sender that finds it full is blocked with its value.
sync_channel(bound) ==
    [bound |-> bound, buffer |-> <<>>, blocked |-> <<>>, connected |-> TRUE]

\* SyncSender::send, up to the point where it returns or blocks.
send(ch, s) ==
    IF Len(ch.buffer) < ch.bound THEN [ch EXCEPT !.buffer = Append(@, s)]
    ELSE [ch EXCEPT !.blocked = <<s>>]

\* Receiver::try_recv: the value that waits longest, if there is one; a
\* blocked sender's value moves on, and the sender returns from send.
try_recv(ch) ==
    IF ch.buffer # <<>>
    THEN [kind |-> "Ok", shape |-> Head(ch.buffer),
          channel |-> [ch EXCEPT !.buffer = Tail(@) \o ch.blocked, !.blocked = <<>>]]
    ELSE IF ch.blocked # <<>>
    THEN [kind |-> "Ok", shape |-> ch.blocked[1], channel |-> [ch EXCEPT !.blocked = <<>>]]
    ELSE IF ch.connected THEN [kind |-> "Empty", shape |-> NoShape, channel |-> ch]
    ELSE [kind |-> "Disconnected", shape |-> NoShape, channel |-> ch]

\* A watcher that is told of every event, registered or not.
notify_unregistered(w, kind) == [w EXCEPT !.events = Append(@, kind)]

\* The watcher is told of an event on the path it watches, once
\* watcher.watch has registered the path.
notify(w, kind) == IF w.watching THEN [w EXCEPT !.events = Append(@, kind)] ELSE w

\* The process has ended: main has returned, the event loop has exited, or
\* the main thread has panicked.
Ended == pc \in {"returned", "exit", "panicked"}

\* main is at its start; the source is in a state of its author's making.
InitMain ==
    /\ source \in [version : {0}, state : SourceStates]
    /\ pc = "load"
    /\ loaded = NoShape
    /\ faces = NoFaces
    /\ renderer = [geometries |-> NoGeometry]
    /\ watcher \in [watching : {FALSE}, events : {<<>>}, handled : {0}, kind : ModifyKinds]
    /\ callback = "idle"
    /\ channel = sync_channel(0)
    /\ sent = <<>>
    /\ received = <<>>

\* The application is not run.
InitMainIdle ==
    /\ source = [version |-> 0, state |-> "ok"]
    /\ pc = "load"
    /\ loaded = NoShape
    /\ faces = NoFaces
    /\ renderer = [geometries |-> NoGeometry]
    /\ watcher = [watching |-> FALSE, events |-> <<>>, handled |-> 0, kind |-> "Modify(Any)"]
    /\ callback = "idle"
    /\ channel = sync_channel(0)
    /\ sent = <<>>
    /\ received = <<>>

\* The author saves a modification of the source while the process runs.
Modify ==
    /\ ~Ended
    /\ source.version < MaxEdits
    /\ \E state \in SourceStates :
          /\ source' = [version |-> source.version + 1, state |-> state]
          /\ watcher' = notify(watcher, watcher.kind)
    /\ UNCHANGED <<pc, loaded, faces, renderer, callback, channel, sent, received>>
    /\ UNCHANGED <<shapeVars, polygonVars, functionVars>>

\* The watcher gets an event that is no modification of the content.
Touch ==
    /\ ~Ended
    /\ watcher.watching
    /\ Len(watcher.events) < MaxEvents
    /\ \E kind \in OtherEvents : watcher' = notify(watcher, kind)
    /\ UNCHANGED <<source, pc, loaded, faces, renderer, callback, channel, sent, received>>
    /\ UNCHANGED <<shapeVars, polygonVars, functionVars>>

\* let shape = model.load(&parameters)?;
Load ==
    /\ pc = "load"
    /\ IF load(source).kind = "Ok"
       THEN loaded' = load(source).shape /\ pc' = "watch"
       ELSE loaded' = loaded /\ pc' = "returned"
    /\ UNCHANGED <<source, faces, renderer, watcher, callback, channel, sent, received>>
    /\ UNCHANGED <<shapeVars, polygonVars, functionVars>>

\* watcher.watch(&watch_path, RecursiveMode::Recursive)?;
Watch ==
    /\ pc = "watch"
    /\ watcher' = [watcher EXCEPT !.watching = TRUE]
    /\ pc' = "faces"
    /\ UNCHANGED <<source, loaded, faces, renderer, callback, channel, sent, received>>
    /\ UNCHANGED <<shapeVars, polygonVars, functionVars>>

\* let mut faces = shape.faces(tolerance); with --export the mesh is written
\* and main returns.
ShapeFaces ==
    /\ pc = "faces"
    /\ faces' = shape_faces(loaded)
    /\ \E export \in BOOLEAN : pc' = IF export THEN "returned" ELSE "update_geometry"
    /\ UNCHANGED <<source, loaded, renderer, watcher, callback, channel, sent, received>>
    /\ UNCHANGED <<shapeVars, polygonVars, functionVars>>

\* renderer.update_geometry((&triangles).into()); before event_loop.run
UpdateGeometry ==
    /\ pc = "update_geometry"
    /\ renderer' = update_geometry(renderer, triangles(faces))
    /\ pc' = "try_recv"
    /\ UNCHANGED <<source, loaded, faces, watcher, callback, channel, sent, received>>
    /\ UNCHANGED <<shapeVars, polygonVars, functionVars>>

\* The callback of the watcher, for the next event, up to its return, its
\* panic or the point where send blocks.
Callback ==
    /\ ~Ended
    /\ callback = "idle"
    /\ watcher.handled < Len(watcher.events)
    /\ watcher' = [watcher EXCEPT !.handled = @ + 1]
    /\ LET event == watcher.events[watcher.handled + 1]
           reloaded == load(source)
       IN  IF event = "Err"
           THEN /\ callback' = "panicked"
                /\ channel' = [channel EXCEPT !.connected = FALSE]
                /\ sent' = sent
           ELSE IF event \notin ModifyKinds
           THEN UNCHANGED <<callback, channel, sent>>
           ELSE IF reloaded.kind = "Ok"
           THEN /\ channel' = send(channel, reloaded.shape)
                /\ sent' = Append(sent, reloaded.shape)
                /\ callback' = IF channel'.blocked # <<>> THEN "blocked" ELSE "idle"
           ELSE IF reloaded.kind = "Compile"
           THEN UNCHANGED <<callback, channel, sent>>
           ELSE /\ callback' = "panicked"
                /\ channel' = [channel EXCEPT !.connected = FALSE]
                /\ sent' = sent
    /\ UNCHANGED <<source, pc, loaded, faces, renderer, received>>
    /\ UNCHANGED <<shapeVars, polygonVars, functionVars>>

\* The start of an iteration of the event loop: match watcher_rx.try_recv()
TryRecv ==
    /\ pc = "try_recv"
    /\ LET got == try_recv(channel)
       IN  IF got.kind = "Ok"
           THEN /\ faces' = shape_faces(got.shape)
                /\ renderer' = update_geometry(renderer, triangles(faces'))
                /\ channel' = got.channel
                /\ callback' = IF channel.blocked # <<>> THEN "idle" ELSE callback
                /\ received' = Append(received, got.shape)
                /\ pc' = "event"
           ELSE /\ pc' = IF got.kind = "Empty" THEN "event" ELSE "panicked"
                /\ UNCHANGED <<faces, renderer, channel, callback, received>>
    /\ UNCHANGED <<source, loaded, watcher, sent>>
    /\ UNCHANGED <<shapeVars, polygonVars, functionVars>>

\* The rest of the iteration: match event, and the actions of the input
\* handler. A request to close the window or to exit ends the loop; an error
\* in renderer.draw is a panic.
HandleEvent ==
    /\ pc = "event"
    /\ pc' \in {"try_recv", "exit", "panicked"}
    /\ UNCHANGED <<source, loaded, faces, renderer, watcher, callback, channel, sent, received>>
    /\ UNCHANGED <<shapeVars, polygonVars, functionVars>>

Init == InitShape /\ InitPolygonIdle /\ InitFunctionIdle /\ InitMainIdle

Next ==
    \/ BuildVertex \/ BuildCircle \/ BuildLineSegment
    \/ Insert \/ GetHandleOrInsert
    \/ new

Spec == Init /\ [][Next]_vars

NextBuilders == RecordVertex \/ RecordCircle \/ RecordLineSegment \/ new

SpecBuilders == Init /\ [][NextBuilders]_vars

NextPolygon == ContainsTriangle

\* A Polygon is constructed; the Shape is empty and no builder is in use.
InitWithPolygon == InitShape /\ InitPolygon /\ InitFunctionIdle /\ InitMainIdle

SpecPolygon == InitWithPolygon /\ [][NextPolygon]_vars

-----------------------------------------------------------------------------
(* Circle (crates/fj-math/src/circle.rs)                                   *)

\* Angles are counted in units of PI / 32: Scalar::PI is 32 units.
PI == 32

\* The significant bits of a Scalar. An f64 has 53; the model keeps the
\* rounding of a sum to the representable values and scales the format down.
MantissaBits == 4

\* The difference up to which two coordinates count as equal.
Tolerance == 1

RECURSIVE Pow2(_)
Pow2(n) == IF n = 0 THEN 1 ELSE 2 * Pow2(n - 1)

\* The distance of the representable values around magnitude m.
RECURSIVE Spacing(_, _)
Spacing(m, s) == IF m < Pow2(MantissaBits) * s THEN s ELSE Spacing(m, 2 * s)

\* The Scalar nearest to x, ties to the even mantissa: the result of an
\* arithmetic operation whose exact result is x.
Nearest(x) ==
    LET m == IF x < 0 THEN -x ELSE x
        s == Spacing(m, 1)
        q == m \div s
        r == m % s
        n == IF 2 * r > s \/ (2 * r = s /\ q % 2 = 1) THEN (q + 1) * s ELSE q * s
    IN  IF x < 0 THEN -n ELSE n

\* Scalar::atan2(v, u), for the directions whose angle is a whole number of
\* units: the axes, the diagonals, and the slope 1 : 10, which is one unit
\* off the axis.
atan2(v, u) ==
    CASE v = 0 /\ u >= 0 -> 0
      [] v = 0 /\ u < 0 -> PI
      [] u = 0 /\ v > 0 -> PI \div 2
      [] u = 0 /\ v < 0 -> -(PI \div 2)
      [] u > 0 /\ v = u -> PI \div 4
      [] u < 0 /\ v = -u -> 3 * (PI \div 4)
      [] u < 0 /\ v = u -> -3 * (PI \div 4)
      [] u > 0 /\ v = -u -> -(PI \div 4)
      [] u > 0 /\ v > 0 /\ u = 10 * v -> 1
      [] u > 0 /\ v < 0 /\ u = -10 * v -> -1

\* Scalar::sin_cos, for the quarter turns: <<sin, cos>>.
sin_cos(angle) ==
    CASE angle % (2 * PI) = 0 -> <<0, 1>>
      [] angle % (2 * PI) = PI \div 2 -> <<1, 0>>
      [] angle % (2 * PI) = PI -> <<0, -1>>
      [] angle % (2 * PI) = 3 * (PI \div 2) -> <<-1, 0>>

\* Circle { center, a, b } of fj-math.
MathCircle(center, a, b) == [center |-> center, a |-> a, b |-> b]

\* Vector::to_uv: the first two components.
to_uv(vector) == [u |-> vector[1], v |-> vector[2]]

Minus(p, q) == <<p[1] - q[1], p[2] - q[2], p[3] - q[3]>>
Plus(p, q) == <<p[1] + q[1], p[2] + q[2], p[3] + q[3]>>
Times(v, k) == <<v[1] * k, v[2] * k, v[3] * k>>

\* Circle::point_to_circle_coords
point_to_circle_coords(c, pnt) ==
    LET vector == to_uv(Minus(pnt, c.center))
        atan == atan2(vector.v, vector.u)
    IN  IF atan >= 0 THEN atan ELSE Nearest(atan + Nearest(PI * 2))

\* Circle::vector_from_circle_coords
vector_from_circle_coords(c, angle) ==
    Plus(Times(c.a, sin_cos(angle)[2]), Times(c.b, sin_cos(angle)[1]))

\* Circle::point_from_circle_coords
point_from_circle_coords(c, angle) == Plus(c.center, vector_from_circle_coords(c, angle))

\* The directions atan2 is modelled for, and the null vector.
Directions ==
    {<<1, 0>>, <<1, 1>>, <<0, 1>>, <<-1, 1>>, <<-1, 0>>, <<-1, -1>>, <<0, -1>>, <<1, -1>>,
     <<10, 1>>, <<10, -1>>, <<0, 0>>}

AxisVectors == {<<1, 0, 0>>, <<-1, 0, 0>>, <<0, 1, 0>>, <<0, -1, 0>>, <<0, 0, 1>>, <<0, 0, -1>>}

\* Circles with |a| = |b| and a perpendicular to b.
Circles ==
    {MathCircle(center, Times(ab[1], r), Times(ab[2], r)) :
        center \in {<<0, 0, 0>>, <<1, 2, 3>>}, r \in 1..2,
        ab \in {uv \in AxisVectors \X AxisVectors :
                  uv[1][1] * uv[2][1] + uv[1][2] * uv[2][2] + uv[1][3] * uv[2][3] = 0}}

\* Points around the center of a circle, in and off its plane.
PointsAround(c) ==
    {Plus(c.center, <<d[1] * k, d[2] * k, w>>) : d \in Directions, k \in 1..2, w \in 0..1}

QuarterTurns == {0, PI \div 2, PI, 3 * (PI \div 2)}

InitCircle ==
    /\ applied = "none"
    /\ value = <<>>
    /\ \E c \in Circles :
          \/ \E pnt \in PointsAround(c) : args = [circle |-> c, point |-> pnt]
          \/ \E angle \in QuarterTurns : args = [circle |-> c, angle |-> angle]

InitWithCircle == InitShape /\ InitPolygonIdle /\ InitCircle /\ InitMainIdle

PointToCircleCoords ==
    /\ applied = "none"
    /\ "point" \in DOMAIN args
    /\ applied' = "point_to_circle_coords"
    /\ value' = point_to_circle_coords(args.circle, args.point)
    /\ UNCHANGED <<args, shapeVars, polygonVars, mainVars>>

\* point_to_circle_coords(point_from_circle_coords([angle]))
RoundTrip ==
    /\ applied = "none"
    /\ "angle" \in DOMAIN args
    /\ applied' = "round_trip"
    /\ value' = point_to_circle_coords(args.circle,
                                       point_from_circle_coords(args.circle, args.angle))
    /\ UNCHANGED <<args, shapeVars, polygonVars, mainVars>>

NextCircle == PointToCircleCoords \/ RoundTrip

SpecCircle == InitWithCircle /\ [][NextCircle]_vars

-----------------------------------------------------------------------------
(* Grid (fj/src/geometry/isosurface/grid.rs)                               *)

\* The most cells of a grid along an axis, between `min` and `max`.
MaxCells == 1

\* GridDescriptor { min, max, resolution }. Lengths are counted in halves, so
\* that half a resolution is a whole number: the resolution 1.0 is 2.
GridDescriptor(min, max, resolution) == [min |-> min, max |-> max, resolution |-> resolution]

GridDescriptors ==
    {GridDescriptor(min, <<min[1] + res * n[1], min[2] + res * n[2], min[3] + res * n[3]>>, res) :
        min \in {<<0, 0, 0>>, <<-2, 0, 2>>}, res \in {2, 4},
        n \in (0..MaxCells) \X (0..MaxCells) \X (0..MaxCells)}

\* GridDescriptor::points: the grid indices. The cells between min and max
\* have a point in their middle, and so has one cell on each side of them.
points(descriptor) ==
    {<<x, y, z>> :
        x \in 0..((descriptor.max[1] - descriptor.min[1]) \div descriptor.resolution + 1),
        y \in 0..((descriptor.max[2] - descriptor.min[2]) \div descriptor.resolution + 1),
        z \in 0..((descriptor.max[3] - descriptor.min[3]) \div descriptor.resolution + 1)}

\* GridIndex::to_coordinates
to_coordinates(index, min, resolution) ==
    <<min[1] + index[1] * resolution - resolution \div 2,
      min[2] + index[2] * resolution - resolution \div 2,
      min[3] + index[3] * resolution - resolution \div 2>>

\* Isosurface of the tests: the distance is 0.0 everywhere.
distance(pnt) == 0

\* Grid::from_descriptor: `values` maps every index to the distance there.
from_descriptor(descriptor) ==
    [descriptor |-> descriptor,
     values |-> [index \in points(descriptor) |->
                    distance(to_coordinates(index, descriptor.min, descriptor.resolution))]]

\* The order of GridIndex, the order of the keys of the BTreeMap.
IndexLess(i, j) ==
    \/ i[1] < j[1]
    \/ i[1] = j[1] /\ i[2] < j[2]
    \/ i[1] = j[1] /\ i[2] = j[2] /\ i[3] < j[3]

\* self.values.iter(): the keys in ascending order.
RECURSIVE iter(_)
iter(indices) ==
    IF indices = {} THEN <<>>
    ELSE LET first == CHOOSE i \in indices : \A j \in indices \ {i} : IndexLess(i, j)
         IN  <<first>> \o iter(indices \ {first})

Value(index, v) == [index |-> index, value |-> v]
GridEdge(a, b) == [a |-> a, b |-> b]

\* edge_to_next: <<edge>> for Some(edge), <<>> for None
edge_to_next(index, v, next_index, values) ==
    IF next_index \notin DOMAIN values THEN <<>>
    ELSE <<GridEdge(Value(index, v), Value(next_index, values[next_index]))>>

\* The neighbours taken in the order x, y, z.
next_indices_xyz(index) ==
    <<<<index[1] + 1, index[2], index[3]>>,
      <<index[1], index[2] + 1, index[3]>>,
      <<index[1], index[2], index[3] + 1>>>>

\* next_z, next_y, next_x of Grid::edges
next_indices(index) ==
    <<<<index[1], index[2], index[3] + 1>>,
      <<index[1], index[2] + 1, index[3]>>,
      <<index[1] + 1, index[2], index[3]>>>>

\* Grid::edges: the edges in the order the iterator yields them.
edges(grid) ==
    LET keys == iter(DOMAIN grid.values)
        of(index) ==
            edge_to_next(index, grid.values[index], next_indices(index)[1], grid.values)
            \o edge_to_next(index, grid.values[index], next_indices(index)[2], grid.values)
            \o edge_to_next(index, grid.values[index], next_indices(index)[3], grid.values)
    IN  chain([k \in 1..Len(keys) |-> of(keys[k])])

\* Edge::direction: the axis along which the indices differ, and the sign
\* of the step from a to b.
direction(edge) ==
    LET a == edge.a.index
        b == edge.b.index
    IN  [axis |-> IF a[1] # b[1] THEN "X" ELSE IF a[2] # b[2] THEN "Y" ELSE "Z",
         sign |-> IF IndexLess(a, b) THEN "Pos" ELSE "Neg"]

\* Edge::reverse
reverse(edge) == GridEdge(edge.b, edge.a)

\* neighbors_of_edge starting at edge.a whatever the direction.
neighbors_of_edge_from_a(grid, edge) ==
    LET o == grid.descriptor.resolution \div 2
        offsets == CASE direction(edge).axis = "Z" ->
                            <<<<-o, -o, o>>, <<o, -o, o>>, <<o, o, o>>, <<-o, o, o>>>>
                     [] direction(edge).axis = "Y" ->
                            <<<<-o, o, -o>>, <<o, o, -o>>, <<o, o, o>>, <<-o, o, o>>>>
                     [] direction(edge).axis = "X" ->
                            <<<<o, -o, -o>>, <<o, o, -o>>, <<o, o, o>>, <<o, -o, o>>>>
        start == to_coordinates(edge.a.index, grid.descriptor.min, grid.descriptor.resolution)
    IN  [k \in 1..4 |-> Plus(start, offsets[k])]

\* Grid::neighbors_of_edge
neighbors_of_edge(grid, edge) ==
    LET o == grid.descriptor.resolution \div 2
        offsets == CASE direction(edge).axis = "Z" ->
                            <<<<-o, -o, o>>, <<o, -o, o>>, <<o, o, o>>, <<-o, o, o>>>>
                     [] direction(edge).axis = "Y" ->
                            <<<<-o, o, -o>>, <<o, o, -o>>, <<o, o, o>>, <<-o, o, o>>>>
                     [] direction(edge).axis = "X" ->
                            <<<<o, -o, -o>>, <<o, o, -o>>, <<o, o, o>>, <<o, -o, o>>>>
        start_ == IF direction(edge).sign = "Neg" THEN edge.b ELSE edge.a
        start == to_coordinates(start_.index, grid.descriptor.min, grid.descriptor.resolution)
    IN  [k \in 1..4 |-> Plus(start, offsets[k])]

InitGrid ==
    /\ applied = "none"
    /\ value = <<>>
    /\ \E descriptor \in GridDescriptors :
          LET grid == from_descriptor(descriptor)
          IN  \/ args = [grid |-> grid]
              \/ \E edge \in Range(edges(grid)) :
                    args \in {[grid |-> grid, edge |-> edge],
                              [grid |-> grid, edge |-> reverse(edge)]}

InitWithGrid == InitShape /\ InitPolygonIdle /\ InitGrid /\ InitMainIdle

Edges ==
    /\ applied = "none"
    /\ "edge" \notin DOMAIN args
    /\ applied' = "edges"
    /\ value' = edges(args.grid)
    /\ UNCHANGED <<args, shapeVars, polygonVars, mainVars>>

NeighborsOfEdge ==
    /\ applied = "none"
    /\ "edge" \in DOMAIN args
    /\ applied' = "neighbors_of_edge"
    /\ value' = neighbors_of_edge(args.grid, args.edge)
    /\ UNCHANGED <<args, shapeVars, polygonVars, mainVars>>

NextGrid == Edges \/ NeighborsOfEdge

SpecGrid == InitWithGrid /\ [][NextGrid]_vars

-----------------------------------------------------------------------------
(* Pnt2 (fj/src/geometry/shapes/pnt2.rs)                                   *)

\* The coordinates of the points compared are the whole numbers up to this
\* magnitude (an R32 is a real number: it is never NaN).
MaxCoord == 1

\* Pnt2::new
Pnt2(x, y) == [x |-> x, y |-> y]

Pnt2s == {Pnt2(x, y) : x \in (-MaxCoord)..MaxCoord, y \in (-MaxCoord)..MaxCoord}

\* Ord::cmp of R32
cmp_R32(x, y) == IF x < y THEN "Less" ELSE IF x = y THEN "Equal" ELSE "Greater"

\* Ord::cmp of a pair: the first components decide unless they are equal.
cmp_tuple(p, q) ==
    IF cmp_R32(p[1], q[1]) # "Equal" THEN cmp_R32(p[1], q[1]) ELSE cmp_R32(p[2], q[2])

\* PartialOrd::partial_cmp of a pair: <<ordering>> for Some(ordering).
partial_cmp_tuple(p, q) ==
    IF <<cmp_R32(p[1], q[1])>> # <<"Equal">> THEN <<cmp_R32(p[1], q[1])>>
    ELSE <<cmp_R32(p[2], q[2])>>

\* cmp with the pairs taken as (y, x).
cmp_yx(self, other) == cmp_tuple(<<self.y, self.x>>, <<other.y, other.x>>)

\* <Pnt2 as Ord>::cmp
cmp(self, other) == cmp_tuple(<<self.x, self.y>>, <<other.x, other.y>>)

\* <Pnt2 as PartialOrd>::partial_cmp
partial_cmp(self, other) == partial_cmp_tuple(<<self.x, self.y>>, <<other.x, other.y>>)

\* a < b, a > b: PartialOrd::lt and PartialOrd::gt, through partial_cmp
lt(self, other) == partial_cmp(self, other) = <<"Less">>
gt(self, other) == partial_cmp(self, other) = <<"Greater">>

InitPnt2 ==
    /\ applied = "none"
    /\ value = <<>>
    /\ \E a \in Pnt2s, b \in Pnt2s : args = [a |-> a, b |-> b]

InitWithPnt2 == InitShape /\ InitPolygonIdle /\ InitPnt2 /\ InitMainIdle

\* The two points are compared in every way.
Compare ==
    /\ applied = "none"
    /\ applied' = "cmp"
    /\ value' = [cmp |-> cmp(args.a, args.b),
                 partial_cmp |-> partial_cmp(args.a, args.b),
                 lt |-> lt(args.a, args.b),
                 gt |-> gt(args.a, args.b),
                 eq |-> args.a = args.b]
    /\ UNCHANGED <<args, shapeVars, polygonVars, mainVars>>

NextPnt2 == Compare

SpecPnt2 == InitWithPnt2 /\ [][NextPnt2]_vars

NextMain ==
    \/ Modify \/ Touch
    \/ Load \/ Watch \/ ShapeFaces \/ UpdateGeometry
    \/ Callback
    \/ TryRecv \/ HandleEvent

\* The application is run; the Shape is empty and no builder is in use.
InitWithMain == InitShape /\ InitPolygonIdle /\ InitFunctionIdle /\ InitMain

SpecMain == InitWithMain /\ [][NextMain]_vars

\* The main thread keeps running, and so does the event loop: winit calls its
\* closure again and again until the loop exits.
SpecMainFair ==
    /\ InitWithMain /\ [][NextMain]_vars
    /\ WF_vars(ShapeFaces) /\ WF_vars(UpdateGeometry)
    /\ WF_vars(TryRecv) /\ WF_vars(HandleEvent)

-----------------------------------------------------------------------------
(* Properties of the store and the builders                                *)

Present(s, kind, object) == \E i \in 1..Len(s[kind]) : s[kind][i] = object

\* The Shape holds no two value-equal objects of one type.
NoDuplicates(s) ==
    \A kind \in Kinds :
        \A i, j \in 1..Len(s[kind]) : s[kind][i] = s[kind][j] => i = j

\* C1: after any sequence of builder, insert and get_handle_or_insert calls,
\* successful or failed, the store holds for every object type (Point, Curve,
\* Vertex, Edge) no two distinct handles whose objects are value-equal.
C1_NoDuplicates == NoDuplicates(shape)

\* A call repeated a value that was there, and the store took no second copy.
C1_Witness ==
    /\ call.op \in {"circle", "insert"}
    /\ result.kind = "Ok"
    /\ shape = before
    /\ Len(shape.edges) = 2

AllSame(entry) ==
    \A r1, r2 \in entry.results : r1.kind = "Ok" /\ r1 = r2

\* C2: two calls of VertexBuilder::from_point with value-equal points, other
\* builder calls in between or not, return the identical Handle<Vertex>, and
\* the second call adds neither a Point nor a Vertex.
C2_FromPointIdempotent ==
    /\ \A p \in Points : AllSame(returned.from_point[p])
    /\ (call.op = "from_point" /\ returned.from_point[call.arg].calls = 2)
          => (shape.points = before.points /\ shape.vertices = before.vertices)

\* from_point is called a second time with a point, after an edge was built.
C2_Witness ==
    /\ call.op = "from_point"
    /\ returned.from_point[call.arg].calls = 2
    /\ result.kind = "Ok"
    /\ Len(shape.edges) > 0
    /\ Len(shape.vertices) = 2

SecondCallAddsNoEdge ==
    (/\ call.op \in {"circle", "line_segment_from_vertices"}
     /\ returned[call.op][call.arg].calls = 2)
        => (Len(shape.curves) = Len(before.curves) /\ Len(shape.edges) = Len(before.edges))

\* C3 as stated: two calls of EdgeBuilder::circle with equal radius, and two
\* calls of EdgeBuilder::line_segment_from_vertices with the same pair of
\* vertex handles, both succeed and return the identical Handle<Edge>, and the
\* second call leaves the number of Curves and Edges unchanged.
C3_AsStated ==
    /\ \A r \in Radii : AllSame(returned.circle[r])
    /\ \A vs \in DOMAIN returned.line_segment_from_vertices :
          AllSame(returned.line_segment_from_vertices[vs])
    /\ SecondCallAddsNoEdge

\* C3, amended: the same, for the pairs of vertex handles that are present in
\* the store (a pair with a handle of another Shape fails both times).
C3_EdgeBuildersIdempotent ==
    /\ \A r \in Radii : AllSame(returned.circle[r])
    /\ \A vs \in DOMAIN returned.line_segment_from_vertices :
          (vs[1].store = "shape" /\ vs[2].store = "shape")
              => AllSame(returned.line_segment_from_vertices[vs])
    /\ SecondCallAddsNoEdge

\* line_segment_from_vertices is called a second time with two stored vertices.
C3_Witness ==
    /\ call.op = "line_segment_from_vertices"
    /\ returned.line_segment_from_vertices[call.arg].calls = 2
    /\ call.arg[1] # call.arg[2]
    /\ Resolves(before, "vertices", call.arg[1])
    /\ Resolves(before, "vertices", call.arg[2])
    /\ result.kind = "Ok"

\* Every handle a stored object references resolves inside the Shape.
Integrity(s) ==
    /\ \A i \in 1..Len(s.vertices) : Resolves(s, "points", s.vertices[i].point)
    /\ \A i \in 1..Len(s.edges) :
          /\ Resolves(s, "curves", s.edges[i].curve)
          /\ \A j \in 1..Len(s.edges[i].vertices) :
                Resolves(s, "vertices", s.edges[i].vertices[j])

\* C4: in every reachable state of the store, the state between the two
\* inserts of a builder call included, each stored Vertex's point handle is a
\* stored Point, each stored Edge's curve handle is a stored Curve and each
\* stored Edge's vertex handles are stored Vertices.
C4_ReferentialIntegrity == Integrity(shape) /\ Integrity(mid)

\* A builder call whose two inserts both added an object: the state between
\* them is neither the state before nor the state after.
C4_Witness ==
    /\ call.op = "line_segment_from_vertices"
    /\ result.kind = "Ok"
    /\ mid # before
    /\ mid # shape
    /\ Len(shape.edges[result.handle.slot].vertices) = 2

Dangling(s, vertices) ==
    \E i \in 1..Len(vertices) : ~Resolves(s, "vertices", vertices[i])

InsertsEdge ==
    call.op \in {"insert", "get_handle_or_insert"} /\ call.kind = "edges"

\* C5: inserting an Edge, directly or through line_segment_from_vertices, whose
\* vertices contain a Handle<Vertex> that is not present in the store returns a
\* Structural error: never Ok, never a Geometric error.
C5_MissingVertexIsStructural ==
    /\ (InsertsEdge /\ Dangling(before, call.arg.vertices))
          => result = Err("Structural")
    /\ (call.op = "line_segment_from_vertices" /\ Dangling(before, call.arg))
          => result = Err("Structural")

\* The builder is called with a stored vertex and a vertex of another Shape.
C5_Witness ==
    /\ call.op = "line_segment_from_vertices"
    /\ Resolves(before, "vertices", call.arg[1])
    /\ ~Resolves(before, "vertices", call.arg[2])
    /\ result = Err("Structural")

\* C6: whenever a store insert or a builder call returns a validation error,
\* the store's contents after the call are those before it: the failed call
\* added no Point, Curve, Vertex or Edge.
C6_FailedCallLeavesStore ==
    result.kind = "Err" => shape = before

\* C7: for a valid object o, get_handle_or_insert(o) returns the handle stored
\* for a value-equal object and leaves the store unchanged when there is one;
\* otherwise it adds exactly one object and returns a handle different from
\* every handle that existed before the call.
C7_GetHandleOrInsert ==
    (/\ call.op = "get_handle_or_insert"
     /\ validate(before, call.kind, call.arg) = "None")
        => /\ result.kind = "Ok"
           /\ Resolves(shape, call.kind, result.handle)
           /\ get(shape, call.kind, result.handle) = call.arg
           /\ IF Present(before, call.kind, call.arg)
              THEN /\ Resolves(before, call.kind, result.handle)
                   /\ shape = before
              ELSE /\ shape = [before EXCEPT ![call.kind] = Append(@, call.arg)]
                   /\ result.handle \notin HandlesOf(before, call.kind)

\* get_handle_or_insert is called with an Edge that is stored already, next to
\* another one.
C7_Witness ==
    /\ call.op = "get_handle_or_insert"
    /\ call.kind = "edges"
    /\ Present(before, "edges", call.arg)
    /\ Len(before.edges) = 2
    /\ result.kind = "Ok"

\* Both vertices of the Edge lie on its curve.
VerticesOnCurve(s, edge) ==
    \A i \in 1..Len(edge.vertices) :
        OnCurve(get(s, "curves", edge.curve), point(s, edge.vertices[i]))

StoredEdgesOnCurve ==
    \A i \in 1..Len(shape.edges) : VerticesOnCurve(shape, shape.edges[i])

BuiltSegmentOnCurve ==
    (/\ call.op = "line_segment_from_vertices"
     /\ ~Dangling(before, call.arg))
        => /\ result.kind = "Ok"
           /\ get(shape, "edges", result.handle).vertices = call.arg
           /\ VerticesOnCurve(shape, get(shape, "edges", result.handle))

\* C8 as stated: every stored Edge that has vertices has both vertices' points
\* on its curve; an insert of an Edge that violates this returns a Geometric
\* error; every Edge that line_segment_from_vertices builds from two stored
\* vertices satisfies it.
C8_AsStated ==
    /\ StoredEdgesOnCurve
    /\ (InsertsEdge /\ ~VerticesOnCurve(before, call.arg))
          => result = Err("Geometric")
    /\ BuiltSegmentOnCurve

\* C8, amended: the same, the Geometric error being that of an Edge all of
\* whose handles resolve in the store (with a handle that does not resolve
\* the error is Structural, whatever the geometry).
C8_EdgeVerticesOnCurve ==
    /\ StoredEdgesOnCurve
    /\ (/\ InsertsEdge
        /\ structural(before, "edges", call.arg)
        /\ ~VerticesOnCurve(before, call.arg))
          => result = Err("Geometric")
    /\ BuiltSegmentOnCurve

\* An Edge between two distinct stored vertices, one of them off the stored
\* curve, is inserted.
C8_Witness ==
    /\ InsertsEdge
    /\ structural(before, "edges", call.arg)
    /\ Len(call.arg.vertices) = 2
    /\ call.arg.vertices[1] # call.arg.vertices[2]
    /\ ~VerticesOnCurve(before, call.arg)
    /\ result = Err("Geometric")

\* C9: a call, successful or failed, leaves every handle issued before it
\* resolving to the same object value: stored objects are never modified,
\* moved to another handle or removed.
C9_StoredObjectsStay ==
    \A kind \in Kinds :
        \A i \in 1..Len(before[kind]) :
            /\ i <= Len(shape[kind])
            /\ shape[kind][i] = before[kind][i]

\* A call added an object of a type the store held an object of already.
C9_Witness ==
    /\ call # NoCall
    /\ result.kind = "Ok"
    /\ \E kind \in Kinds :
          Len(before[kind]) > 0 /\ Len(shape[kind]) > Len(before[kind])

\* The edges of the triangle of the call.
TriangleEdges ==
    {<<triangle[1], triangle[2]>>, <<triangle[2], triangle[3]>>, <<triangle[3], triangle[1]>>}

IsBoundary(edge) == edge \in segments \/ <<edge[2], edge[1]>> \in segments

Midpoint(edge) ==
    <<(edge[1][1] + edge[2][1]) \div 2, (edge[1][2] + edge[2][2]) \div 2>>

\* The distinct rounded parameters at which the ray from the middle of the edge
\* toward `outside` meets the stored segments.
RoundedHits(edge) ==
    LET center == Midpoint(edge)
        dir == <<outside[1] - center[1], outside[2] - center[2]>>
    IN  {round(cast_local_ray(seg, center, dir).n, cast_local_ray(seg, center, dir).d) :
            seg \in {sg \in segments : cast_local_ray(sg, center, dir).hit}}

Odd(n) == n % 2 = 1

\* C10: contains_triangle returns true exactly when each of the three edges of
\* the triangle is a stored boundary segment, in one of the two orientations,
\* or has an odd number of distinct rounded hits of the ray from its middle
\* toward `outside` with the stored segments.
C10_ContainsTriangle ==
    triangle # <<>> =>
        (ret <=> \A edge \in TriangleEdges :
                    IsBoundary(edge) \/ Odd(Cardinality(RoundedHits(edge))))

\* A triangle is accepted that has an edge stored in the other orientation
\* and an edge inside the polygon, whose ray is cast.
C10_Witness ==
    /\ triangle # <<>>
    /\ ret
    /\ \E edge \in TriangleEdges : edge \notin segments /\ IsBoundary(edge)
    /\ \E edge \in TriangleEdges : ~IsBoundary(edge) /\ Odd(Cardinality(RoundedHits(edge)))

\* The six orderings of the three corners of the triangle of the call.
Orderings(abc) ==
    {<<abc[i], abc[j], abc[k]>> : <<i, j, k>> \in {ijk \in (1..3) \X (1..3) \X (1..3) :
                                                    {ijk[1], ijk[2], ijk[3]} = 1..3}}

\* What contains_triangle returns for a triangle and an outside point.
Returns(abc, outside_) == contains_triangle(segments, order, abc, outside_, <<>>).ret

\* The ordering of the corners that is the same for the six orderings of a
\* triangle: ascending in x, then y.
Ascending(abc) ==
    CHOOSE t \in Orderings(abc) :
        \A i \in 1..2 : t[i][1] < t[i + 1][1] \/ (t[i][1] = t[i + 1][1] /\ t[i][2] < t[i + 1][2])

\* C11: contains_triangle returns the same boolean for all six orderings of
\* the three corners of the triangle (in every state, whatever the ordering of
\* the call, what it returns for the corners in ascending order).
C11_OrderOfCorners ==
    triangle # <<>> => Returns(Ascending(triangle), outside) = ret

\* A triangle is rejected that has an edge on the boundary and an edge whose
\* ray has an even number of hits: the edges do not agree.
C11_Witness ==
    /\ triangle # <<>>
    /\ ~ret
    /\ \E edge \in TriangleEdges : IsBoundary(edge)
    /\ \E edge \in TriangleEdges : ~IsBoundary(edge) /\ Odd(Cardinality(RoundedHits(edge)))
    /\ \E edge \in TriangleEdges : ~IsBoundary(edge) /\ ~Odd(Cardinality(RoundedHits(edge)))

\* The bounding box of the stored segments.
OutsideBoundingBox(p) ==
    \/ \A seg \in segments : p[1] < seg[1][1]
    \/ \A seg \in segments : p[1] > seg[1][1]
    \/ \A seg \in segments : p[2] < seg[1][2]
    \/ \A seg \in segments : p[2] > seg[1][2]

\* C12: contains_triangle returns the same boolean for every outside point
\* that lies outside the bounding region of the face, the outside points
\* included whose ray from the middle of an edge passes through a vertex
\* shared by two boundary segments.
C12_ChoiceOfOutside ==
    triangle # <<>> =>
        \A o \in OutsidePoints : OutsideBoundingBox(o) => Returns(triangle, o) = ret

\* The face of C13: a square with a centered square hole.
SquareWithHole == Polygon_new(Outer, <<Hole>>)

HoleCorners == {point_model_to_surface(Hole[i]) : i \in 1..Len(Hole)}

Min(S) == CHOOSE x \in S : \A y \in S : x <= y
Max(S) == CHOOSE x \in S : \A y \in S : x >= y

\* Twice the signed area of the triangle.
Area2(abc) ==
    (abc[2][1] - abc[1][1]) * (abc[3][2] - abc[1][2])
        - (abc[2][2] - abc[1][2]) * (abc[3][1] - abc[1][1])

\* The triangle lies in the hole: its corners do (the hole is convex).
InHole(abc) ==
    \A i \in 1..3 :
        /\ abc[i][1] >= Min({c[1] : c \in HoleCorners})
        /\ abc[i][1] <= Max({c[1] : c \in HoleCorners})
        /\ abc[i][2] >= Min({c[2] : c \in HoleCorners})
        /\ abc[i][2] <= Max({c[2] : c \in HoleCorners})

\* The axes along which two convex figures that do not overlap are apart: the
\* normals of the edges of the triangle and of the hole.
Axes(abc) ==
    {<<abc[1][2] - abc[2][2], abc[2][1] - abc[1][1]>>,
     <<abc[2][2] - abc[3][2], abc[3][1] - abc[2][1]>>,
     <<abc[3][2] - abc[1][2], abc[1][1] - abc[3][1]>>,
     <<1, 0>>, <<0, 1>>}

\* The triangle lies in the outer square and shares no inner point with the
\* hole: it lies in the annulus between the hole and the outer boundary.
InAnnulus(abc) ==
    \E axis \in Axes(abc) :
        LET ofTriangle == {Dot(axis, abc[i]) : i \in 1..3}
            ofHole == {Dot(axis, c) : c \in HoleCorners}
        IN  Max(ofTriangle) <= Min(ofHole) \/ Max(ofHole) <= Min(ofTriangle)

\* C13: for the square with a centered square hole, contains_triangle rejects
\* every candidate triangle that lies in the hole and accepts every candidate
\* triangle that lies in the annulus between the hole and the outer boundary.
C13_HoleAndAnnulus ==
    (triangle # <<>> /\ segments = SquareWithHole /\ Area2(triangle) # 0)
        => /\ InHole(triangle) => ~ret
           /\ InAnnulus(triangle) => ret

\* C14: what contains_triangle returns does not depend on DebugInfo: with the
\* same polygon, triangle and outside point, calls with different contents of
\* debug_info return the same boolean; and the call only appends to
\* debug_info.triangle_edge_checks, the entries there stay as they are.
C14_DebugInfoIsASink ==
    [][/\ Len(debug_info') >= Len(debug_info)
       /\ SubSeq(debug_info', 1, Len(debug_info)) = debug_info
       /\ \A other \in {<<>>, <<EarlierCheck>>, <<EarlierCheck, EarlierCheck>>} :
             contains_triangle(segments, order, triangle', outside', other).ret = ret']_vars

\* A call with an entry in DebugInfo has cast the rays of two edges.
C14_Witness ==
    /\ triangle # <<>>
    /\ Len(debug_info) >= 3
    /\ debug_info[1] = EarlierCheck
    /\ debug_info[2] # EarlierCheck

\* One order of the stored segments, the same in all states with these
\* segments: the order in which Polygon::new collected them.
CollectedOrder ==
    LET face == CHOOSE f \in Faces : Polygon_new(f.exterior, f.interiors) = segments
    IN  collected(face.exterior, face.interiors)

\* The ray cast for an edge of the triangle, and the segments it is parallel
\* to without lying on their line.
RayOrigin(edge) == Midpoint(edge)
RayDir(edge) == <<outside[1] - Midpoint(edge)[1], outside[2] - Midpoint(edge)[2]>>
ParallelApart(edge, seg) ==
    LET d == RayDir(edge)
        sd == <<seg[2][1] - seg[1][1], seg[2][2] - seg[1][2]>>
        to == <<seg[1][1] - RayOrigin(edge)[1], seg[1][2] - RayOrigin(edge)[2]>>
    IN  /\ d[1] * sd[2] - d[2] * sd[1] = 0
        /\ to[1] * sd[2] - to[2] * sd[1] # 0

AtanOfArgs ==
    atan2(to_uv(Minus(args.point, args.circle.center)).v,
          to_uv(Minus(args.point, args.circle.center)).u)

\* The circle and the points of the test.
TestCircle == MathCircle(<<1, 2, 3>>, <<1, 0, 0>>, <<0, 1, 0>>)
TestCoords ==
    [p \in {<<2, 2, 3>>, <<1, 3, 3>>, <<0, 2, 3>>, <<1, 1, 3>>} |->
        CASE p = <<2, 2, 3>> -> 0
          [] p = <<1, 3, 3>> -> PI \div 2
          [] p = <<0, 2, 3>> -> PI
          [] p = <<1, 1, 3>> -> 3 * (PI \div 2)]

\* C16: point_to_circle_coords returns for every point a coordinate in
\* [0, 2 PI): a non-negative atan2 is returned as it is and a negative one has
\* 2 PI added; for the circle at (1,2,3) with a = (1,0,0), b = (0,1,0) the
\* points (2,2,3), (1,3,3), (0,2,3), (1,1,3) map to 0, PI/2, PI, 3 PI/2.
C16_CoordsInRange ==
    applied = "point_to_circle_coords" =>
        /\ 0 <= value /\ value < Nearest(PI * 2)
        /\ AtanOfArgs >= 0 => value = AtanOfArgs
        /\ AtanOfArgs < 0 => value = Nearest(AtanOfArgs + Nearest(PI * 2))
        /\ (args.circle = TestCircle /\ args.point \in DOMAIN TestCoords)
              => value = TestCoords[args.point]

\* C17: for every Circle with |a| = |b| and a perpendicular to b and every
\* angle in [0, 2 PI), point_to_circle_coords(point_from_circle_coords([angle]))
\* equals the angle within the tolerance.
C17_RoundTrip ==
    applied = "round_trip" =>
        /\ value - args.angle <= Tolerance
        /\ args.angle - value <= Tolerance

\* b is the neighbour of a along the axis: one index further.
StepAlong(a, b) ==
    CASE b = <<a[1], a[2], a[3] + 1>> -> 1
      [] b = <<a[1], a[2] + 1, a[3]>> -> 2
      [] b = <<a[1] + 1, a[2], a[3]>> -> 3
      [] OTHER -> 0

\* The grid of the tests: min (0,0,0), max (1,1,1), resolution 1.0.
TestGrid == from_descriptor(GridDescriptor(<<0, 0, 0>>, <<2, 2, 2>>, 2))

\* C18: Grid::edges yields, walking the grid indices in ascending (x, y, z)
\* order, for each index its edges to the +z, +y and +x neighbour in that
\* order, an edge exactly when the neighbour is a populated index; every pair
\* of axis-adjacent indices is yielded exactly once, with the lower index as a.
C18_EdgesOfGrid ==
    applied = "edges" =>
        LET populated == DOMAIN args.grid.values
        IN  /\ \A k \in 1..Len(value) :
                  /\ value[k].a.index \in populated
                  /\ value[k].b.index \in populated
                  /\ StepAlong(value[k].a.index, value[k].b.index) # 0
            /\ \A a \in populated, b \in populated :
                  StepAlong(a, b) # 0 =>
                      Cardinality({k \in 1..Len(value) :
                                      value[k].a.index = a /\ value[k].b.index = b}) = 1
            /\ \A k \in 1..Len(value), l \in 1..Len(value) :
                  k < l =>
                      \/ IndexLess(value[k].a.index, value[l].a.index)
                      \/ /\ value[k].a.index = value[l].a.index
                         /\ StepAlong(value[k].a.index, value[k].b.index)
                                < StepAlong(value[l].a.index, value[l].b.index)
            /\ args.grid = TestGrid =>
                  /\ Len(value) = 54
                  /\ <<value[1].a.index, value[1].b.index>> = <<<<0, 0, 0>>, <<0, 0, 1>>>>
                  /\ <<value[2].a.index, value[2].b.index>> = <<<<0, 0, 0>>, <<0, 1, 0>>>>
                  /\ <<value[3].a.index, value[3].b.index>> = <<<<0, 0, 0>>, <<1, 0, 0>>>>
                  /\ <<value[7].a.index, value[7].b.index>> = <<<<0, 0, 2>>, <<0, 1, 2>>>>
                  /\ <<value[54].a.index, value[54].b.index>> = <<<<2, 2, 1>>, <<2, 2, 2>>>>

\* The edges of the grid of the tests are listed.
C18_Witness ==
    /\ applied = "edges"
    /\ args.grid = TestGrid
    /\ Len(value) = 54

\* C19: for every axis-aligned grid edge e, neighbors_of_edge(e) and
\* neighbors_of_edge(e.reverse()) return the same four cube centers in the
\* same order.
C19_NeighborsOfReversed ==
    applied = "neighbors_of_edge" =>
        /\ value = neighbors_of_edge(args.grid, reverse(args.edge))
        /\ (args.grid = TestGrid /\ {args.edge.a.index, args.edge.b.index}
                                        = {<<1, 1, 1>>, <<2, 1, 1>>})
              => value = <<<<2, 0, 0>>, <<2, 2, 0>>, <<2, 2, 2>>, <<2, 0, 2>>>>

\* The neighbours of an edge are asked for that runs against its axis.
C19_Witness ==
    /\ applied = "neighbors_of_edge"
    /\ direction(args.edge).sign = "Neg"
    /\ direction(args.edge).axis = "Y"
    /\ Len(value) = 4

\* C20: the order on Pnt2 is the lexicographic order on (x, y): a < b iff
\* a.x < b.x, or a.x = b.x and a.y < b.y; exactly one of a < b, a = b, a > b
\* holds; and partial_cmp returns Some of what cmp returns.
C20_LexicographicOrder ==
    applied = "cmp" =>
        /\ value.lt <=> (args.a.x < args.b.x \/ (args.a.x = args.b.x /\ args.a.y < args.b.y))
        /\ value.cmp = "Less" <=> value.lt
        /\ value.cmp = "Equal" <=> value.eq
        /\ value.cmp = "Greater" <=> value.gt
        /\ Cardinality({which \in {"lt", "eq", "gt"} : value[which]}) = 1
        /\ value.gt <=> lt(args.b, args.a)
        /\ \A c \in Pnt2s : (value.lt /\ lt(args.b, c)) => lt(args.a, c)
        /\ value.partial_cmp = <<value.cmp>>
        /\ (args.a = Pnt2(0, 1) /\ args.b = Pnt2(1, 0)) => (value.lt /\ ~value.gt)

\* The points of the test are compared: the x decides against the y.
C20_Witness ==
    /\ applied = "cmp"
    /\ args.a = Pnt2(0, 1)
    /\ args.b = Pnt2(1, 0)
    /\ value.lt

\* The edges of the triangle of the call in the order (a,b), (b,c), (c,a).
EdgesInOrder ==
    <<<<triangle[1], triangle[2]>>, <<triangle[2], triangle[3]>>, <<triangle[3], triangle[1]>>>>

\* The edge is no boundary segment and its ray has an even number of hits.
Rejecting(edge) == ~IsBoundary(edge) /\ ~Odd(Cardinality(RoundedHits(edge)))

\* The distinct rounded parameters at which the ray from `center` along `dir`
\* meets the segments.
HitsAlong(segs, center, dir) ==
    {round(cast_local_ray(seg, center, dir).n, cast_local_ray(seg, center, dir).d) :
        seg \in {sg \in segs : cast_local_ray(sg, center, dir).hit}}

\* The rays of the checks that are due for the triangle abc: one for each edge
\* that is no boundary segment, up to and including the first edge whose ray
\* has an even number of hits; and whether no edge has such a ray.
ChecksDue(segs, abc, outside_) ==
    LET e == <<<<abc[1], abc[2]>>, <<abc[2], abc[3]>>, <<abc[3], abc[1]>>>>
        boundary == [i \in 1..3 |-> e[i] \in segs \/ <<e[i][2], e[i][1]>> \in segs]
        center == [i \in 1..3 |-> Midpoint(e[i])]
        dir == [i \in 1..3 |-> <<outside_[1] - center[i][1], outside_[2] - center[i][2]>>]
        ray == [i \in 1..3 |-> [origin |-> <<center[i][1], center[i][2], 0>>,
                                dir    |-> <<dir[i][1], dir[i][2], 0>>]]
        r1 == ~boundary[1] /\ ~Odd(Cardinality(HitsAlong(segs, center[1], dir[1])))
        r2 == ~boundary[2] /\ ~Odd(Cardinality(HitsAlong(segs, center[2], dir[2])))
        r3 == ~boundary[3] /\ ~Odd(Cardinality(HitsAlong(segs, center[3], dir[3])))
        c1 == IF boundary[1] THEN <<>> ELSE <<ray[1]>>
        c2 == IF r1 \/ boundary[2] THEN <<>> ELSE <<ray[2]>>
        c3 == IF r1 \/ r2 \/ boundary[3] THEN <<>> ELSE <<ray[3]>>
    IN  [rays |-> c1 \o c2 \o c3, ret |-> ~(r1 \/ r2 \/ r3)]

\* C21: contains_triangle examines the edges in the order (a,b), (b,c), (c,a)
\* and stops at the first edge with an even number of hits: it appends to
\* debug_info exactly one TriangleEdgeCheck for each edge examined that is no
\* boundary segment, up to and including the rejecting edge, none for an edge
\* that is a boundary segment and none for the edges after the rejecting one.
C21_ChecksOfExaminedEdges ==
    [][/\ Len(debug_info') =
             Len(debug_info) + Len(ChecksDue(segments, triangle', outside').rays)
       /\ \A k \in 1..(Len(debug_info') - Len(debug_info)) :
             debug_info'[Len(debug_info) + k].ray =
                 ChecksDue(segments, triangle', outside').rays[k]
       /\ ret' = ChecksDue(segments, triangle', outside').ret]_vars

\* A triangle is rejected at its second edge; the first edge is a boundary
\* segment, the third is none, and the call has recorded one check.
C21_Witness ==
    /\ triangle # <<>>
    /\ ~ret
    /\ IsBoundary(EdgesInOrder[1])
    /\ Rejecting(EdgesInOrder[2])
    /\ ~IsBoundary(EdgesInOrder[3])
    /\ Len(debug_info) = 1

\* What is left of n / d below the 6th decimal digit, as a numerator over d;
\* the digits are taken three at a time (eps = 1000 * 1000).
Remainder(n, d) == (((n * 1000) % d) * 1000) % d

\* h / eps is n / d rounded to 6 decimal digits, a half upward.
Rounds(h, n, d) ==
    h = ((n * 1000) \div d) * 1000 + ((((n * 1000) % d) * 1000) \div d)
          + (IF 2 * Remainder(n, d) >= d THEN 1 ELSE 0)

\* The hits recorded in the check are the rounded parameters at which its ray
\* meets the segments, each of them once.
HitsRecorded(segs, check) ==
    LET origin == <<check.ray.origin[1], check.ray.origin[2]>>
        dir == <<check.ray.dir[1], check.ray.dir[2]>>
        met == {cast_local_ray(seg, origin, dir) : seg \in segs}
    IN  /\ \A i, j \in 1..Len(check.hits) : check.hits[i] = check.hits[j] => i = j
        /\ \A i \in 1..Len(check.hits) :
              \E m \in met : m.hit /\ Rounds(check.hits[i], m.n, m.d)
        /\ \A m \in met :
              m.hit => \E i \in 1..Len(check.hits) : Rounds(check.hits[i], m.n, m.d)

\* C22: for each edge examined, every parameter of a hit is rounded to 6
\* decimal digits before it is recorded, and the hits of the TriangleEdgeCheck
\* hold each distinct rounded parameter exactly once: their number is the size
\* of the set the parity test uses (an even number for the rejecting edge, an
\* odd one for every other), so that two segments hit at the same rounded
\* parameter count as one hit.
C22_HitsRoundedAndDistinct ==
    [][\A k \in (Len(debug_info) + 1)..Len(debug_info') :
          /\ HitsRecorded(segments, debug_info'[k])
          /\ Odd(Len(debug_info'[k].hits)) <=> (ret' \/ k < Len(debug_info'))]_vars

\* A call has recorded a check whose ray meets two segments at the same
\* rounded parameter, recorded once, and a check with a hit whose parameter is
\* no multiple of 1 / eps.
C22_Witness ==
    /\ triangle # <<>>
    /\ \E k \in 1..Len(debug_info) :
          LET check == debug_info[k]
              origin == <<check.ray.origin[1], check.ray.origin[2]>>
              dir == <<check.ray.dir[1], check.ray.dir[2]>>
          IN  /\ check # EarlierCheck
              /\ \E s1, s2 \in segments :
                    /\ s1 # s2
                    /\ cast_local_ray(s1, origin, dir).hit
                    /\ cast_local_ray(s2, origin, dir).hit
                    /\ \E i \in 1..Len(check.hits) :
                          /\ Rounds(check.hits[i], cast_local_ray(s1, origin, dir).n,
                                    cast_local_ray(s1, origin, dir).d)
                          /\ Rounds(check.hits[i], cast_local_ray(s2, origin, dir).n,
                                    cast_local_ray(s2, origin, dir).d)
              /\ \E s3 \in segments :
                    /\ cast_local_ray(s3, origin, dir).hit
                    /\ Remainder(cast_local_ray(s3, origin, dir).n,
                                 cast_local_ray(s3, origin, dir).d) # 0

-----------------------------------------------------------------------------
(* Properties of the application                                           *)

\* The watcher has got no event of a kind the callback reloads the model for.
NoModifyEvent == \A i \in 1..Len(watcher.events) : watcher.events[i] \notin ModifyKinds

InEventLoop == pc \in {"try_recv", "event"}

\* The renderer draws the triangles of the faces of the shape.
Displays(s) ==
    faces = shape_faces(s) /\ renderer.geometries = triangles(shape_faces(s))

\* C23: a modification of the source after the first model.load and before
\* watcher.watch has registered the watcher is missed: the watcher gets no
\* event for it, and as long as no event of a modification has arrived no
\* reload takes place, and the geometry on display stays that of the shape
\* loaded at the start.
C23_MissedModification ==
    /\ [][(pc = "watch" /\ source' # source) => watcher' = watcher]_vars
    /\ [](NoModifyEvent =>
             /\ sent = <<>> /\ received = <<>> /\ callback # "blocked"
             /\ InEventLoop => Displays(loaded))

\* The source was modified after the load and compiles; the event loop runs,
\* no event has arrived, and the geometry on display is that of the shape
\* loaded at the start.
C23_Witness ==
    /\ pc = "event"
    /\ watcher.watching
    /\ watcher.events = <<>>
    /\ source.state = "ok"
    /\ loaded.version < source.version
    /\ Displays(loaded)

\* The shape on display once the shapes in `got` have been received.
Latest(got) == IF got = <<>> THEN loaded ELSE got[Len(got)]

\* C24: every shape the callback sends is received by exactly one iteration
\* of the event loop, in the order of the sends; that iteration replaces
\* `faces` and updates the renderer's geometry with the triangles of the shape
\* before it handles its window event; the callback is blocked in send until
\* then; an iteration receives at most one shape; and a reload that fails to
\* compile sends nothing and leaves the geometry on display as it is.
C24_ReloadedShapes ==
    /\ [](/\ Len(received) <= Len(sent)
          /\ received = SubSeq(sent, 1, Len(received))
          /\ Len(sent) = Len(received) + (IF callback = "blocked" THEN 1 ELSE 0)
          /\ InEventLoop => Displays(Latest(received)))
    /\ [][/\ received' # received =>
                /\ pc = "try_recv" /\ pc' = "event"
                /\ callback = "blocked" /\ callback' = "idle"
                /\ received' = Append(received, sent[Len(received) + 1])
          /\ (callback = "blocked" /\ callback' # "blocked") => received' # received
          /\ (/\ watcher'.handled # watcher.handled
              /\ watcher.events[watcher.handled + 1] \in ModifyKinds
              /\ load(source).kind = "Compile") =>
                /\ sent' = sent /\ callback' = "idle"
                /\ faces' = faces /\ renderer' = renderer]_vars
    /\ (callback = "blocked") ~> (callback = "idle" \/ Ended)

\* Two shapes of different versions of the source were sent and received,
\* a reload in between failed to compile, and the second shape is on display
\* while its iteration has yet to handle its window event.
C24_Witness ==
    /\ pc = "event"
    /\ callback = "idle"
    /\ Len(received) = 2
    /\ received[1] # received[2]
    /\ received = sent
    /\ NoModifyEvent = FALSE
    /\ watcher.handled = 3
    /\ \A i \in 1..3 : watcher.events[i] \in ModifyKinds
    /\ Displays(received[2])

====
